---- MODULE Spec2Model ----
(***************************************************************************)
(* A model of lib/phantom-tester.js: the suite registry and its            *)
(* continuation-passing scheduler (start, _startSuite, _getSuiteDoneCb),   *)
(* the per-suite page session (openAndTest with its onInitialized, onError *)
(* and page.open callbacks), the test queue (getTestRunner) and the suite  *)
(* finalization (onTestSuiteFinished).                                     *)
(*                                                                         *)
(* PhantomJS runs the script on one thread.  Each callback of the source   *)
(* is a sequence of steps of the model; `pc` is the position of the only   *)
(* thread of control.  Calls into the page (injectJs, evaluate) and the    *)
(* user's callbacks are inputs, drawn with \E from small sets.             *)
(*                                                                         *)
(* A throw inside a callback unwinds that callback and nothing else: the   *)
(* source installs no phantom.onError handler and calls phantom.exit only  *)
(* at lines 271 and 323, so the error is kept in `uncaught` and the event  *)
(* loop goes on with whatever callbacks are still registered.              *)
(***************************************************************************)
EXTENDS Integers, Sequences, FiniteSets, TLC

\* ------------------------------------------------------------ bounds
MaxSuites == 2      \* registerSuite calls
MaxTests == 2       \* tests declared by one gatherTests call
MaxPaths == 1       \* polyfill() calls, and userScript() calls
MaxErrors == 1      \* page errors delivered to page.onError

\* ------------------------------------------------- program constants
SUCCESS_CODE == 0   \* the code of a suite, and of a run, without failures
FAIL_CODE == 99     \* the code of a suite, and of a run, with failures
strip == 7          \* the characters page.onError cuts off an assertion message

\* An empty registry reported as a success.
EmptyAsSuccess == SUCCESS_CODE

\* The code start() exits with when no suite is registered (line 271).
EMPTY_CODE == 98

\* ------------------------------------------------------------ values
Undefined == "undefined"    \* a configuration field that was never set

\* Strings the code searches and slices are sequences of characters.
magicString == <<"A","S","S","E","R","T","_","F","A","I","L">>
ErrorPrefix == <<"E","r","r","o","r",":"," ">>
PhantomErrorPrefix == <<"P","H","A","N","T","O","M"," ","E","R","R","O","R",":"," ">>

\* String.prototype.indexOf: the 0-based position of the first occurrence
\* of sub in s, or -1.
IndexOf(s, sub) ==
    LET hits == {i \in 0..(Len(s) - Len(sub)) : SubSeq(s, i + 1, i + Len(sub)) = sub}
    IN IF hits = {} THEN -1 ELSE CHOOSE i \in hits : \A j \in hits : i <= j

\* A slice that keeps the character at index k - 1.
SliceOneEarlier(s, k) == SubSeq(s, k, Len(s))

\* String.prototype.slice(k) for 0 <= k.
Slice(s, k) == SubSeq(s, k + 1, Len(s))

\* The messages the page may report, and the ignore-list entries a
\* configuration may hold.
MsgAssert == ErrorPrefix \o magicString \o <<":"," ","1","!","=","2">>
MsgAssertBare == magicString \o <<" ","t","h","r","o","w","n">>
MsgNoise == <<"T","y","p","e","E","r","r","o","r",":"," ","n","o","i","s","e">>
MsgOther == ErrorPrefix \o <<"b","o","o","m">>
Messages == {MsgAssert, MsgAssertBare, MsgNoise, MsgOther}
IgnoreNoise == <<"n","o","i","s","e">>
IgnoreFail == <<"F","A","I","L">>

VARIABLES
    CFG,                \* parseCommandLineCfg(): [debug, verbose]
    config,             \* this._config.phantom: [debug, verbose, ignoredErrors]
    polyfillPaths,      \* this._polyfillPaths: [defined, list]
    userScriptPaths,    \* this._userScriptPaths: [defined, list]
    registeredSuites,   \* this._registeredSuites
    exitCodes,          \* this._exitCodes
    pages,              \* the pages made by webpage.create(), oldest first
    pc,                 \* position of the thread of control
    cur,                \* suiteId of the running openAndTest closure
    nSuitesCb,          \* nSuites captured by the continuation of suite cur
    pendingTests,       \* getTestRunner: pendingTests
    asserts,            \* window[CFG.xunitName] in the current page
    doneArg,            \* the exit code handed to the continuation
    exits,              \* the codes given to phantom.exit, oldest first
    uncaught,           \* errors thrown out of a callback, oldest first
    stderr,             \* console.error calls, oldest first
    errors,             \* the page.onError calls so far: page, msg, trace and
                        \* the console.error calls each made
    log                 \* the console.log calls and driver calls made for
                        \* the current suite, oldest first

vars == <<CFG, config, polyfillPaths, userScriptPaths, registeredSuites, exitCodes,
          pages, pc, cur, nSuitesCb, pendingTests, asserts, doneArg, exits,
          uncaught, stderr, errors, log>>

\* One entry of the log: what happened, for which suite (0-based id), with
\* the numbers that were printed or passed.
Ev(ev, n, args) == [ev |-> ev, n |-> n, args |-> args]

\* --------------------------------------------------------------- Init
\* The module's fields as the object literal sets them (lines 275-281),
\* and the command line parsed at load time (line 15).
Init ==
    /\ CFG \in [debug : BOOLEAN, verbose : BOOLEAN]
    /\ config = [debug |-> Undefined, verbose |-> Undefined,
                 ignoredErrors |-> [defined |-> FALSE, list |-> <<>>]]   \* {}
    /\ polyfillPaths = [defined |-> TRUE, list |-> <<>>]
    /\ userScriptPaths = [defined |-> TRUE, list |-> <<>>]
    /\ registeredSuites = <<>>
    /\ exitCodes = <<>>
    /\ pages = <<>>
    /\ pc = "script"
    /\ cur = 0
    /\ nSuitesCb = 0
    /\ pendingTests = <<>>
    /\ asserts = [defined |-> FALSE, good |-> 0, bad |-> 0]
    /\ doneArg = 0
    /\ exits = <<>>
    /\ uncaught = <<>>
    /\ stderr = <<>>
    /\ errors = <<>>
    /\ log = <<>>

\* Where the embedding script's own code runs: before start(), after
\* start() returned (page.open is asynchronous), and inside the
\* gatherTests callback it passed to registerSuite.
UserCodeRuns == pc \in {"script", "wait", "gather"} /\ exits = <<>>

\* ------------------------------------------------- configuration API
\* userScript(path): push; the k-th call passes path k.
userScript ==
    /\ pc = "script"
    /\ userScriptPaths.defined
    /\ Len(userScriptPaths.list) < MaxPaths
    /\ userScriptPaths' = [userScriptPaths EXCEPT
                              !.list = Append(@, Len(@) + 1)]
    /\ UNCHANGED <<CFG, config, polyfillPaths, registeredSuites, exitCodes, pages,
                   pc, cur, nSuitesCb, pendingTests, asserts, doneArg, exits,
                   uncaught, stderr, errors, log>>

\* polyfill(path): push; the k-th call passes path k.
polyfill ==
    /\ pc = "script"
    /\ polyfillPaths.defined
    /\ Len(polyfillPaths.list) < MaxPaths
    /\ polyfillPaths' = [polyfillPaths EXCEPT !.list = Append(@, Len(@) + 1)]
    /\ UNCHANGED <<CFG, config, userScriptPaths, registeredSuites, exitCodes, pages,
                   pc, cur, nSuitesCb, pendingTests, asserts, doneArg, exits,
                   uncaught, stderr, errors, log>>

\* The values of a configuration field, and the objects setConfig is
\* called with: every field set or not.
Tri == {Undefined, "true", "false"}
NoList == [defined |-> FALSE, list |-> <<>>]
IgnoreLists == {<<>>, <<IgnoreNoise>>, <<IgnoreFail, IgnoreNoise>>}
Configs ==
    [debug : Tri, verbose : Tri,
     ignoredErrors : {NoList} \cup {[defined |-> TRUE, list |-> l] : l \in IgnoreLists}]

\* setConfig(cfgObj), called once at most, before start().
setConfig ==
    /\ pc = "script"
    /\ config = [debug |-> Undefined, verbose |-> Undefined, ignoredErrors |-> NoList]
    /\ \E c \in Configs : config' = c
    /\ UNCHANGED <<CFG, polyfillPaths, userScriptPaths, registeredSuites, exitCodes,
                   pages, pc, cur, nSuitesCb, pendingTests, asserts, doneArg, exits,
                   uncaught, stderr, errors, log>>

\* registerSuite(url, gatherTests): push, with no condition on the state
\* of the run; the k-th call passes url k.
registerSuite ==
    /\ UserCodeRuns
    /\ Len(registeredSuites) < MaxSuites
    /\ registeredSuites' = Append(registeredSuites, [url |-> Len(registeredSuites) + 1])
    /\ UNCHANGED <<CFG, config, polyfillPaths, userScriptPaths, exitCodes, pages, pc,
                   cur, nSuitesCb, pendingTests, asserts, doneArg, exits, uncaught,
                   stderr, errors, log>>

\* The embedding script assigns the public field _polyfillPaths or
\* _userScriptPaths a null value: the case the guards at lines 156 and 175
\* test for.
unsetPaths ==
    /\ pc = "script"
    /\ \/ /\ polyfillPaths.defined
          /\ polyfillPaths' = [defined |-> FALSE, list |-> <<>>]
          /\ UNCHANGED userScriptPaths
       \/ /\ userScriptPaths.defined
          /\ userScriptPaths' = [defined |-> FALSE, list |-> <<>>]
          /\ UNCHANGED polyfillPaths
    /\ UNCHANGED <<CFG, config, registeredSuites, exitCodes, pages, pc, cur, nSuitesCb,
                   pendingTests, asserts, doneArg, exits, uncaught, stderr, errors,
                   log>>

\* ------------------------------------------------------- page session
\* verbose.log(msg) of the page session p, named by its source line.
VLog(p, line) == IF p.bVerbose THEN <<Ev("verbose", p.suite, <<line>>)>> ELSE <<>>

\* The injection loops (lines 159-166 and 178-185): the log of injecting
\* list[1..upto], where injection r reports failure (r = 0: none does).
InjectLog(p, kind, line, list, upto, r) ==
    LET one(i) == Ev(kind, p.suite, <<list[i], IF r = i THEN 0 ELSE 1>>)
    IN IF p.bVerbose
       THEN [j \in 1..(2 * upto) |->
                IF j % 2 = 1 THEN Ev("verbose", p.suite, <<line>>) ELSE one(j \div 2)]
       ELSE [j \in 1..upto |-> one(j)]

\* openAndTest (lines 98-169): the closure's configuration, a new page with
\* its three handlers, and page.open.
NewPage(n) ==
    [suite |-> n,
     url |-> registeredSuites[n + 1].url,
     bDebug |-> IF config.debug # Undefined THEN config.debug = "true" ELSE CFG.debug,
     bVerbose |-> IF config.verbose # Undefined THEN config.verbose = "true"
                  ELSE CFG.verbose,
     ignoredErrors |-> config.ignoredErrors,
     initialized |-> FALSE,
     scripts |-> <<>>,
     closed |-> FALSE]       \* page.close() is called nowhere

\* _startSuite(n) and the openAndTest call it makes.  The log starts anew
\* with each suite.
StartSuite(n) ==
    LET nSuites == Len(registeredSuites)
        page == NewPage(n)
    IN /\ log' = (IF n > 0 THEN <<Ev("br", n, <<>>)>> ELSE <<>>)
                  \o <<Ev("starting", n, <<n + 1, nSuites, page.url>>),
                       Ev("create", n, <<Len(pages) + 1>>),
                       Ev("open", n, <<page.url>>)>>
       /\ nSuitesCb' = nSuites
       /\ cur' = n
       /\ pages' = Append(pages, page)
       /\ asserts' = [defined |-> FALSE, good |-> 0, bad |-> 0]
       /\ pc' = "wait"

\* start()
start ==
    /\ pc = "script"
    /\ \/ /\ Len(registeredSuites) > 0
          /\ StartSuite(0)
          /\ UNCHANGED <<exits, stderr>>
       \/ /\ ~(Len(registeredSuites) > 0)
          /\ stderr' = Append(stderr, <<<<"No suites registered!">>>>)
          /\ exits' = Append(exits, EMPTY_CODE)
          /\ pc' = "exited"
          /\ UNCHANGED <<log, nSuitesCb, cur, pages, asserts>>
    /\ UNCHANGED <<CFG, config, polyfillPaths, userScriptPaths, registeredSuites,
                   exitCodes, pendingTests, doneArg, uncaught, errors>>

\* An on-initialized hook that gives the suite up as failed when a
\* polyfill is missing, without waiting for the load.
pageOnInitializedGivesUp ==
    /\ pc = "wait"
    /\ ~pages[Len(pages)].initialized
    /\ pages' = [pages EXCEPT ![Len(pages)].initialized = TRUE]
    /\ IF polyfillPaths.defined
       THEN UNCHANGED <<pc, doneArg>>
       ELSE pc' = "doneCb" /\ doneArg' = FAIL_CODE
    /\ UNCHANGED <<CFG, config, polyfillPaths, userScriptPaths, registeredSuites,
                   exitCodes, cur, nSuitesCb, pendingTests, asserts, exits,
                   uncaught, stderr, errors, log>>

\* page.onInitialized of the current page: the driver calls it once, before
\* the page's scripts run.  A throw ends this callback only.
pageOnInitialized ==
    /\ pc = "wait"
    /\ ~pages[Len(pages)].initialized
    /\ LET i == Len(pages)
           p == pages[i]
           pfPaths == polyfillPaths
       IN \/ /\ ~pfPaths.defined
             /\ uncaught' = Append(uncaught, "phantom-tester: _polyfillPaths is not defined")
             /\ pages' = [pages EXCEPT ![i].initialized = TRUE]
             /\ UNCHANGED log
          \/ /\ pfPaths.defined
             /\ \E r \in 0..Len(pfPaths.list) :
                  LET upto == IF r = 0 THEN Len(pfPaths.list) ELSE r
                      done == IF r = 0 THEN upto ELSE r - 1
                  IN /\ log' = log \o InjectLog(p, "polyfill", 160, pfPaths.list, upto, r)
                     /\ pages' = [pages EXCEPT
                           ![i].initialized = TRUE,
                           ![i].scripts = @ \o [j \in 1..done |-> <<"polyfill", pfPaths.list[j]>>]]
                     /\ uncaught' = IF r = 0 THEN uncaught
                                    ELSE Append(uncaught, "Can't inject polyfill into the page...")
    /\ UNCHANGED <<CFG, config, polyfillPaths, userScriptPaths, registeredSuites,
                   exitCodes, pc, cur, nSuitesCb, pendingTests, asserts, doneArg, exits,
                   stderr, errors>>

\* The load statuses the driver reports.
Statuses == {"success", "fail"}
StatusNo(status) == IF status = "success" THEN 1 ELSE 0

\* Lines 174-196 of the page.open callback, after the log entries `head`:
\* the user scripts, the assertion library and the test runner.  A throw
\* ends the callback: nothing of the page session remains pending.
InjectAndPrepare(head) ==
    LET i == Len(pages)
        p == pages[i]
        usPaths == userScriptPaths
    IN \/ /\ ~usPaths.defined
          /\ uncaught' = Append(uncaught,
                                "phantom-tester: _userScriptPaths is not defined")
          /\ log' = head
          /\ pc' = "idle"
          /\ UNCHANGED <<pages, asserts, pendingTests>>
       \/ /\ usPaths.defined
          /\ \E r \in 1..Len(usPaths.list) :
               /\ log' = head \o InjectLog(p, "userscript", 179, usPaths.list, r, r)
               /\ pages' = [pages EXCEPT ![i].scripts =
                     @ \o [j \in 1..(r - 1) |-> <<"userscript", usPaths.list[j]>>]]
               /\ uncaught' = Append(uncaught,
                                     "Can't inject userscript into the page...")
               /\ pc' = "idle"
               /\ UNCHANGED <<asserts, pendingTests>>
       \/ /\ usPaths.defined
          /\ log' = head
                    \o InjectLog(p, "userscript", 179, usPaths.list,
                                 Len(usPaths.list), 0)
                    \o VLog(p, 187)
                    \o <<Ev("xunit", p.suite, <<>>)>>
                    \o VLog(p, 195)
          /\ pages' = [pages EXCEPT ![i].scripts =
                @ \o [j \in 1..Len(usPaths.list) |-> <<"userscript", usPaths.list[j]>>]
                  \o <<<<"xunit", 0>>>>]
          /\ asserts' = [defined |-> TRUE, good |-> 0, bad |-> 0]
          /\ pendingTests' = <<>>
          /\ pc' = "gather"
          /\ UNCHANGED uncaught

\* The log entries of lines 169-171: the load, and the two verbose lines.
LoadedLog(status) ==
    LET p == pages[Len(pages)]
    IN log \o <<Ev("loaded", p.suite, <<StatusNo(status)>>)>> \o VLog(p, 170) \o VLog(p, 171)

\* A callback that gives up on a failed load.
OpenCallbackSuccessOnly(status) ==
    IF status = "success"
    THEN InjectAndPrepare(LoadedLog(status))
    ELSE /\ uncaught' = Append(uncaught, "page failed to load")
         /\ log' = LoadedLog(status)
         /\ pc' = "idle"
         /\ UNCHANGED <<pages, asserts, pendingTests>>

\* function (status) given to page.open (lines 169-196), up to the call of
\* feedRunnerWithTests: status is printed, and read nowhere else.
OpenCallback(status) == InjectAndPrepare(LoadedLog(status))

\* The driver calls the callback of page.open once the page has been
\* initialized, with the status of the load.
pageOpenCallback ==
    /\ pc = "wait"
    /\ pages[Len(pages)].initialized
    /\ \E status \in Statuses : OpenCallback(status)
    /\ UNCHANGED <<CFG, config, polyfillPaths, userScriptPaths, registeredSuites,
                   exitCodes, cur, nSuitesCb, doneArg, exits, stderr, errors>>

\* feedRunnerWithTests(testRunner) (line 197): the user's gatherTests calls
\* testRunner(name, fn) k times; the i-th test is named i.
feedRunnerWithTests ==
    /\ pc = "gather"
    /\ \E k \in 0..MaxTests :
         /\ pendingTests' = [i \in 1..k |-> i]
         /\ log' = Append(log, Ev("gather", cur, <<k>>))
    /\ pc' = "run"
    /\ UNCHANGED <<CFG, config, polyfillPaths, userScriptPaths, registeredSuites,
                   exitCodes, pages, cur, nSuitesCb, asserts, doneArg, exits, uncaught,
                   stderr, errors>>

\* What one test body does in the page: the value page.evaluate returns
\* for the wrapped body, and what the body's assertions add to the tally.
TestBodies ==
    {[ok |-> TRUE, good |-> 1, bad |-> 0],      \* an assertion that holds
     [ok |-> FALSE, good |-> 0, bad |-> 1],     \* an assertion that fails
     [ok |-> FALSE, good |-> 0, bad |-> 0],     \* another error thrown
     [ok |-> TRUE, good |-> 0, bad |-> 1]}      \* a failure counted, nothing thrown

\* page.evaluate(testFn, test.testFn, testArgs) on the page's tally.
Evaluate(tally, body) ==
    [tally EXCEPT !.good = @ + body.good, !.bad = @ + body.bad]

\* A queue emptied from its end (Array.prototype.pop).
Pop(q) == [head |-> q[Len(q)], rest |-> SubSeq(q, 1, Len(q) - 1)]

\* Array.prototype.shift: the element taken and the rest.
Shift(q) == [head |-> Head(q), rest |-> Tail(q)]

\* A loop that leaves the last test in the queue.
MoreThanOnePending(q) == Len(q) > 1

\* The condition of the loop of testRunner.start (line 64).
TestsPending(q) == Len(q) > 0

\* testRunner.start() (lines 63-71): one turn of the loop, or its end.
testRunnerStart ==
    /\ pc = "run"
    /\ \/ /\ TestsPending(pendingTests)
          /\ \E body \in TestBodies :
               LET test == Shift(pendingTests).head
               IN /\ pendingTests' = Shift(pendingTests).rest
                  /\ asserts' = Evaluate(asserts, body)
                  /\ log' = Append(log, Ev("test", cur,
                                           <<test, IF body.ok THEN 1 ELSE 0>>))
          /\ pc' = "run"
       \/ /\ ~TestsPending(pendingTests)
          /\ pc' = "finish"
          /\ UNCHANGED <<pendingTests, asserts, log>>
    /\ UNCHANGED <<CFG, config, polyfillPaths, userScriptPaths, registeredSuites,
                   exitCodes, pages, cur, nSuitesCb, doneArg, exits, uncaught, stderr,
                   errors>>

\* A suite that fails only from its second bad assertion on.
HasFailuresOffByOne(tally) == tally.bad > 1

\* hasFailures of onTestSuiteFinished (line 212).
HasFailures(tally) == tally.bad > 0

\* The code onTestSuiteFinished passes to done (line 221).
SuiteExitCode(tally) == IF HasFailures(tally) THEN FAIL_CODE ELSE SUCCESS_CODE

\* A summary that numbers the suites from 0.
SummaryLineZeroBased(id, count, tally) ==
    <<id, count, tally.good>> \o (IF HasFailures(tally) THEN <<tally.bad>> ELSE <<>>)

\* msg of onTestSuiteFinished (lines 214-218): id + 1, count, the good
\* count and, when the KO part is printed, the bad count.
SummaryLine(id, count, tally) ==
    <<id + 1, count, tally.good>> \o (IF HasFailures(tally) THEN <<tally.bad>> ELSE <<>>)

\* onTestSuiteFinished(page, {id, count}, done) (lines 201-221), up to the
\* call of done: the tally is read, the summary printed.
onTestSuiteFinished ==
    /\ pc = "finish"
    /\ LET count == Len(registeredSuites)
       IN log' = log \o <<Ev("read", cur, <<asserts.good, asserts.bad>>),
                          Ev("summary", cur, SummaryLine(cur, count, asserts))>>
    /\ doneArg' = SuiteExitCode(asserts)
    /\ pc' = "doneCb"
    /\ UNCHANGED <<CFG, config, polyfillPaths, userScriptPaths, registeredSuites,
                   exitCodes, pages, cur, nSuitesCb, pendingTests, asserts, exits,
                   uncaught, stderr, errors>>

\* A continuation that starts its own suite again.
NextSuiteIdSame(n) == n

\* nextSuiteId of the continuation (line 311).
NextSuiteId(n) == n + 1

\* A continuation that looks at the last suite's code only.
HasErrorLastOnly(codes) == codes[Len(codes)] = FAIL_CODE

\* hasError of the continuation (line 315): _exitCodes.indexOf(99) > -1.
HasError(codes) == \E k \in 1..Len(codes) : codes[k] = FAIL_CODE

\* The code the continuation gives to phantom.exit (line 323).
FinalExitCode(codes) == IF HasError(codes) THEN FAIL_CODE ELSE SUCCESS_CODE

\* The function _getSuiteDoneCb(n) returned, called with doneArg (lines
\* 307-325): record the code, then start the next suite or finish the run.
suiteDoneCb ==
    /\ pc = "doneCb"
    /\ LET codes == Append(exitCodes, doneArg)
           nextSuiteId == NextSuiteId(cur)
           called == Ev("done", cur, <<doneArg>>)
       IN /\ exitCodes' = codes
          /\ \/ /\ nextSuiteId < nSuitesCb
                /\ StartSuite(nextSuiteId)
                /\ UNCHANGED exits
             \/ /\ ~(nextSuiteId < nSuitesCb)
                /\ log' = log \o <<called,
                                   Ev("allFinished", cur,
                                      <<IF HasError(codes) THEN 1 ELSE 0>>)>>
                /\ exits' = Append(exits, FinalExitCode(codes))
                /\ pc' = "exited"
                /\ UNCHANGED <<pages, cur, nSuitesCb, asserts>>
    /\ UNCHANGED <<CFG, config, polyfillPaths, userScriptPaths, registeredSuites,
                   pendingTests, doneArg, uncaught, stderr, errors>>

\* ---------------------------------------------------- error observer
\* isAssertFail of page.onError (line 122).
IsAssertFail(msg) == IndexOf(msg, magicString) >= 0

\* An ignore-list matched against the whole message.
IgnoreExact(ignoredErrors, msg) ==
    /\ ignoredErrors.defined
    /\ \E k \in 1..Len(ignoredErrors.list) : msg = ignoredErrors.list[k]

\* ignore of page.onError (lines 125-130).
Ignore(ignoredErrors, msg) ==
    /\ ignoredErrors.defined
    /\ \E k \in 1..Len(ignoredErrors.list) : IndexOf(msg, ignoredErrors.list[k]) > -1

\* One line of msgStack for the trace frame t (line 135); an absent field
\* of the frame is the empty string.
FrameLine(t) ==
    <<" -> ", IF t.file # "" THEN t.file ELSE t.sourceURL, ": ", t.line>>
    \o (IF t.function # "" THEN <<" (in function ", t.function, ")">> ELSE <<>>)

\* msgStack of page.onError (lines 132-138), a sequence of lines.
MsgStack(msg, trace) ==
    <<PhantomErrorPrefix \o msg>>
    \o (IF Len(trace) > 0 THEN [k \in 1..Len(trace) |-> FrameLine(trace[k])] \o <<<<>>>>
        ELSE <<>>)

\* An observer that prints assertion failures in debug mode only.
OnErrorOutputDebugOnly(p, msg, trace) ==
    (IF p.bDebug /\ ~IsAssertFail(msg) /\ ~Ignore(p.ignoredErrors, msg)
     THEN <<MsgStack(msg, trace)>> ELSE <<>>)
    \o (IF p.bDebug /\ IsAssertFail(msg) THEN <<<<Slice(msg, strip)>>>> ELSE <<>>)

\* The console.error calls page.onError(msg, trace) makes for the page
\* session p (lines 120-149), each call a sequence of lines.
OnErrorOutput(p, msg, trace) ==
    (IF p.bDebug /\ ~IsAssertFail(msg) /\ ~Ignore(p.ignoredErrors, msg)
     THEN <<MsgStack(msg, trace)>> ELSE <<>>)
    \o (IF IsAssertFail(msg) THEN <<<<Slice(msg, strip)>>>> ELSE <<>>)

\* The traces the driver passes: none, a frame of a named function, a
\* frame known by its sourceURL only.
Traces ==
    {<<>>,
     <<[file |-> "page.js", sourceURL |-> "", line |-> "12", function |-> "f"]>>,
     <<[file |-> "", sourceURL |-> "lib.js", line |-> "3", function |-> ""]>>}

\* Where the driver may call a page's onError: from the event loop, and
\* inside the page.evaluate calls of the test runner and of the tally read.
ErrorMayFire == pc \in {"wait", "run", "finish", "idle"}

\* An error observer that ends the process on an assertion failure, as
\* the lines commented out at 146-147 would.
pageOnErrorExits ==
    /\ ErrorMayFire
    /\ Len(errors) < MaxErrors
    /\ \E i \in 1..Len(pages), msg \in Messages, trace \in Traces :
         LET out == OnErrorOutput(pages[i], msg, trace)
         IN /\ stderr' = stderr \o out
            /\ errors' = Append(errors, [page |-> i, msg |-> msg, trace |-> trace,
                                         out |-> out])
            /\ exits' = (IF IsAssertFail(msg) THEN Append(exits, 1) ELSE exits)
            /\ pc' = (IF IsAssertFail(msg) THEN "exited" ELSE pc)
    /\ UNCHANGED <<CFG, config, polyfillPaths, userScriptPaths, registeredSuites,
                   exitCodes, pages, cur, nSuitesCb, pendingTests, asserts, doneArg,
                   uncaught, log>>

\* page.onError(msg, trace) of the i-th page.  No page is ever closed, so
\* every page made so far may report.
pageOnError ==
    /\ ErrorMayFire
    /\ Len(errors) < MaxErrors
    /\ \E i \in 1..Len(pages), msg \in Messages, trace \in Traces :
         LET out == OnErrorOutput(pages[i], msg, trace)
         IN /\ stderr' = stderr \o out
            /\ errors' = Append(errors, [page |-> i, msg |-> msg, trace |-> trace,
                                         out |-> out])
    /\ UNCHANGED <<CFG, config, polyfillPaths, userScriptPaths, registeredSuites,
                   exitCodes, pages, pc, cur, nSuitesCb, pendingTests, asserts, doneArg,
                   exits, uncaught, log>>

\* ------------------------------------------------------ specification
\* The run of the suites: configuration of the paths, registration, start
\* and the callbacks of every page session.  The configuration is the
\* command line's.
Next ==
    \/ userScript
    \/ polyfill
    \/ unsetPaths
    \/ registerSuite
    \/ start
    \/ pageOnInitialized
    \/ pageOpenCallback
    \/ feedRunnerWithTests
    \/ testRunnerStart
    \/ onTestSuiteFinished
    \/ suiteDoneCb

Spec == Init /\ [][Next]_vars

\* The error observer: any configuration, registration and start, then the
\* errors the page reports while it loads.
NextErr ==
    \/ setConfig
    \/ registerSuite
    \/ start
    \/ pageOnError

ErrSpec == Init /\ [][NextErr]_vars

\* ============================================================ claims
\* The entries of the log l that are named ev.
Entries(l, ev) == SelectSeq(l, LAMBDA e : e.ev = ev)

\* C1: suites are started in registration order and one at a time: the
\* k-th page made is the page of the k-th registered suite, and the page of
\* suite n+1 is made only once the continuations of suites 0..n have been
\* called (each call records one code); at most one suite is started and
\* not yet continued.
C1_SuitesInOrder ==
    /\ \A k \in 1..Len(pages) :
         /\ pages[k].suite = k - 1
         /\ k <= Len(registeredSuites)
         /\ pages[k].url = registeredSuites[k].url
    /\ Len(pages) > 0 => /\ Len(exitCodes) >= Len(pages) - 1
                         /\ Len(exitCodes) <= Len(pages)
                         /\ cur = Len(pages) - 1
    /\ Len(pages) = 0 => exitCodes = <<>>
    /\ (Len(pages) > 0 /\ Len(exitCodes) = Len(pages)) => pc = "exited"

\* C1 witness: the second suite was started after the first one's
\* continuation was called.
C1_Witness == Len(pages) = 2 /\ Len(exitCodes) = 1 /\ pc = "wait"

\* C2: when the last continuation has ended the run, the one exit status is
\* 99 iff some suite's continuation was called with 99 and 0 iff none was,
\* and a run ended by start() on an empty registry has status 98, which is
\* neither.
C2_GlobalExitStatus ==
    pc = "exited" =>
        /\ Len(exits) = 1
        /\ exitCodes # <<>> =>
             /\ exits[1] = 99 <=> (\E k \in 1..Len(exitCodes) : exitCodes[k] = 99)
             /\ exits[1] = 0 <=> (\A k \in 1..Len(exitCodes) : exitCodes[k] # 99)
        /\ exitCodes = <<>> => exits[1] = 98 /\ exits[1] # 99 /\ exits[1] # 0

\* C2 witness: the first suite failed, the second passed, the run ended
\* with 99.
C2_Witness == pc = "exited" /\ exitCodes = <<99, 0>> /\ exits = <<99>>

\* C3: the tests a gatherTests call declared are executed one at a time in
\* the order of their declaration, whatever their outcomes: the tests
\* executed so far are the first m declared, the queue holds the others in
\* order, and once start() has returned all were executed and the queue is
\* empty.
C3_TestsFifo ==
    LET gathered == Entries(log, "gather")
        tests == Entries(log, "test")
        m == Len(tests)
    IN /\ Len(gathered) <= 1
       /\ gathered = <<>> => tests = <<>> /\ pendingTests = <<>>
       /\ gathered # <<>> =>
            LET k == gathered[1].args[1]
            IN /\ m <= k
               /\ \A i \in 1..m : tests[i].args[1] = i
               /\ pendingTests = [i \in 1..(k - m) |-> m + i]
               /\ pc # "run" => m = k /\ pendingTests = <<>>

\* C3 witness: start() has returned after a failed first test and a second
\* test.
C3_Witness ==
    /\ pc = "finish"
    /\ Len(Entries(log, "test")) = 2
    /\ Entries(log, "test")[1].args = <<1, 0>>
    /\ Entries(log, "test")[2].args[1] = 2

\* C4: the code onTestSuiteFinished hands to the continuation is 99 iff the
\* bad count it read is positive, and 0 otherwise, (0,0) included.
C4_SuiteCode ==
    pc = "doneCb" =>
        LET tally == Entries(log, "read")[1].args
        IN /\ Len(Entries(log, "read")) = 1
           /\ tally = <<asserts.good, asserts.bad>>
           /\ doneArg = 99 <=> tally[2] > 0
           /\ doneArg = 0 <=> tally[2] = 0

\* C4 witness: a tally of one good and one bad assertion gave 99.
C4_Witness ==
    pc = "doneCb" /\ asserts.good = 1 /\ asserts.bad = 1 /\ doneArg = 99

\* s holds sub as a substring.
Contains(s, sub) ==
    \E i \in 1..(Len(s) - Len(sub) + 1) : SubSeq(s, i, i + Len(sub) - 1) = sub

\* The ignore-list of the page session p holds an entry that msg contains.
HoldsIgnored(p, msg) ==
    \E k \in 1..Len(p.ignoredErrors.list) : Contains(msg, p.ignoredErrors.list[k])

\* C5: every page error whose message holds the marker ASSERT_FAIL made the
\* observer print, whatever the session's debug and verbose modes and its
\* ignore-list; everything the observer printed is on stderr.
C5_MarkerAlwaysPrinted ==
    /\ \A k \in 1..Len(errors) :
         Contains(errors[k].msg, magicString) => Len(errors[k].out) >= 1
    /\ Len(stderr) >= Cardinality({k \in 1..Len(errors) :
                                      Contains(errors[k].msg, magicString)})

\* C5 witness: debug mode is off and the ignore-list holds an entry the
\* message contains; the assertion failure was printed.
C5_Witness ==
    \E k \in 1..Len(errors) :
        LET e == errors[k]
            p == pages[e.page]
        IN /\ Contains(e.msg, magicString)
           /\ ~p.bDebug
           /\ HoldsIgnored(p, e.msg)
           /\ Len(e.out) = 1
           /\ stderr # <<>>

\* C6: a page error whose message does not hold the marker printed nothing
\* when the session's debug mode is off, and nothing when debug mode is on
\* and the message contains an entry of the ignore-list; while no observer
\* call printed, stderr is empty.
C6_NonMarkerSuppressed ==
    /\ \A k \in 1..Len(errors) :
         LET e == errors[k]
             p == pages[e.page]
         IN ~Contains(e.msg, magicString) =>
              /\ ~p.bDebug => e.out = <<>>
              /\ (p.bDebug /\ HoldsIgnored(p, e.msg)) => e.out = <<>>
    /\ (pages # <<>> /\ \A k \in 1..Len(errors) : errors[k].out = <<>>) => stderr = <<>>

\* C6 witness: debug mode is on, the message is "TypeError: noise", the
\* ignore-list holds "noise", and nothing was printed.
C6_Witness ==
    \E k \in 1..Len(errors) :
        /\ errors[k].msg = MsgNoise
        /\ pages[errors[k].page].bDebug
        /\ pages[errors[k].page].ignoredErrors.list = <<IgnoreNoise>>
        /\ errors[k].out = <<>>
        /\ stderr = <<>>

\* C7: start() on an empty registry exits with 98 and makes no page and
\* starts no suite.
C7_EmptyRegistry ==
    [][(pc = "script" /\ pc' # "script" /\ registeredSuites = <<>>)
        => (exits' = <<98>> /\ pc' = "exited" /\ pages' = <<>> /\ log' = <<>>)]_vars

\* C7 witness: the run has ended with 98, no page was ever made.
C7_Witness ==
    pc = "exited" /\ exits = <<98>> /\ pages = <<>> /\ registeredSuites = <<>>

\* C8: once start() has been called, registerSuite does not append to the
\* registry.
C8_NoLateRegistration ==
    [][pc # "script" => registeredSuites' = registeredSuites]_vars

\* The log holds the failed injection of a script of the given kind.
InjectionFailed(kind) ==
    \E k \in 1..Len(log) : log[k].ev = kind /\ log[k].args[2] = 0

\* C9: once the page.open callback of a suite found no user-script list or
\* a user-script injection reported failure, the process has ended with a
\* status other than 0, and no later suite is started.
C9_UserScriptFailureEndsRun ==
    (pc = "idle" /\ uncaught # <<>>
        /\ uncaught[Len(uncaught)] \in {"phantom-tester: _userScriptPaths is not defined",
                                        "Can't inject userscript into the page..."})
    => (Len(exits) = 1 /\ exits[1] # 0 /\ Len(pages) = cur + 1)

\* C10: once a polyfill injection reported failure in the on-initialized
\* hook of a suite, no user script is injected and no test is gathered or
\* executed for that suite.
C10_PolyfillFailureAborts ==
    InjectionFailed("polyfill") =>
        /\ \A k \in 1..Len(log) : log[k].ev \notin {"userscript", "xunit", "gather", "test"}
        /\ pc \in {"wait", "exited"}

\* The steps of the run that follow start(): the driver's two callbacks and
\* the code that runs on from them.
RunStep ==
    \/ pageOnInitialized
    \/ pageOpenCallback
    \/ feedRunnerWithTests
    \/ testRunnerStart
    \/ onTestSuiteFinished
    \/ suiteDoneCb

\* C11: whatever the outcomes of the tests, the process has not exited
\* while a suite is pending; unless a throw left the page.open callback a
\* step of the run is always possible; and when the process has exited
\* from a continuation, it has exited once, with status 0 or 99, every
\* registered suite has had its page and its continuation, and the last
\* continuation is the one that exited.
C11_FailuresDoNotEndRun ==
    /\ pc # "exited" => exits = <<>>
    /\ pc \in {"wait", "gather", "run", "finish", "doneCb"} => ENABLED RunStep
    /\ pc = "idle" => uncaught # <<>>
    /\ (pc = "exited" /\ exitCodes # <<>>) =>
          /\ Len(exits) = 1 /\ exits[1] \in {SUCCESS_CODE, FAIL_CODE}
          /\ Len(exitCodes) = Len(registeredSuites)
          /\ Len(pages) = Len(registeredSuites)
          /\ \A k \in 1..Len(pages) : pages[k].suite = k - 1
          /\ log[Len(log) - 1] = Ev("done", Len(registeredSuites) - 1,
                                    <<exitCodes[Len(exitCodes)]>>)

\* The message without the first occurrence of the marker text.
WithoutMarker(msg) ==
    LET i == IndexOf(msg, magicString)
    IN IF i = -1 THEN msg
       ELSE SubSeq(msg, 1, i) \o SubSeq(msg, i + Len(magicString) + 1, Len(msg))

\* The output of a call of the error observer is one line.
OneLine(out) == Len(out) = 1 /\ Len(out[1]) = 1

\* C12 as stated: for a page error whose message holds the marker, the
\* error observer prints one line, the message with the marker text taken
\* out.
C12_MarkerStripped ==
    \A k \in 1..Len(errors) :
        Contains(errors[k].msg, magicString) =>
            /\ OneLine(errors[k].out)
            /\ errors[k].out[1][1] = WithoutMarker(errors[k].msg)

\* C12, amended: for a page error whose message holds the marker, the error
\* observer prints one line, the message from its eighth character on (the
\* length of a leading "Error: "), whatever the seven characters are; the
\* marker is printed unless the cut removes part of it.
C12_LeadingSevenCut ==
    \A k \in 1..Len(errors) :
        LET msg == errors[k].msg
            out == errors[k].out
        IN Contains(msg, magicString) =>
              /\ OneLine(out)
              /\ Len(out[1][1]) = Len(msg) - 7
              /\ \A j \in 1..Len(out[1][1]) : out[1][1][j] = msg[j + 7]
              /\ IndexOf(msg, magicString) >= 7 => Contains(out[1][1], magicString)

C12_Witness ==
    \E k \in 1..Len(errors) :
        /\ errors[k].msg = MsgAssert /\ pages[errors[k].page].bDebug
        /\ OneLine(errors[k].out)
        /\ Contains(errors[k].out[1][1], magicString)

\* The index of the first entry of the log of the given kind, 0 if none.
FirstAt(l, ev) ==
    IF \E k \in 1..Len(l) : l[k].ev = ev
    THEN CHOOSE k \in 1..Len(l) : l[k].ev = ev /\ \A j \in 1..(k - 1) : l[j].ev # ev
    ELSE 0

\* C13: a suite prints no summary line before its tests are through and
\* never a second one; when its continuation is invoked, whether the suite
\* passed or failed, it has printed exactly one, before the call; the line
\* holds the suite's index plus one, the number of registered suites and
\* the good count, and holds the bad count if and only if that count is
\* above 0.
C13_OneSummary ==
    LET sums == Entries(log, "summary")
    IN /\ Len(sums) <= 1
       /\ (pages # <<>> /\ pc \in {"wait", "gather", "run", "finish", "idle"}) => sums = <<>>
       /\ (pc = "doneCb" \/ (pc = "exited" /\ exitCodes # <<>>)) =>
             /\ Len(sums) = 1
             /\ sums[1].n = cur
             /\ sums[1].args[1] = cur + 1
             /\ sums[1].args[2] = Len(registeredSuites)
             /\ sums[1].args[3] = asserts.good
             /\ Len(sums[1].args) = (IF asserts.bad > 0 THEN 4 ELSE 3)
             /\ asserts.bad > 0 => sums[1].args[4] = asserts.bad
             /\ doneArg = (IF asserts.bad > 0 THEN FAIL_CODE ELSE SUCCESS_CODE)
             /\ (pc = "doneCb") => Entries(log, "done") = <<>>
             /\ (pc = "exited") => FirstAt(log, "summary") < FirstAt(log, "done")

C13_Witness ==
    /\ pc = "doneCb" /\ cur = 1 /\ exitCodes = <<SUCCESS_CODE>>
    /\ asserts.bad = 1 /\ asserts.good = 1
    /\ Entries(log, "summary") = <<Ev("summary", 1, <<2, 2, 1, 1>>)>>

\* The page sessions that have not been closed.
AlivePages == {k \in 1..Len(pages) : ~pages[k].closed}

\* C14: at most one page is alive, and when the page of a suite is made
\* the pages of the suites before it are closed.
C14_OnePageAlive ==
    /\ Cardinality(AlivePages) <= 1
    /\ \A k \in 1..Len(pages) : k < Len(pages) => pages[k].closed

C15_State ==
    LET reads == Entries(log, "read")
        tests == Entries(log, "test")
        gathered == Entries(log, "gather")
    IN /\ Len(reads) <= 1
       /\ (pages # <<>> /\ pc \in {"wait", "gather", "run", "finish", "idle"}) => reads = <<>>
       /\ (pc = "doneCb" \/ (pc = "exited" /\ exitCodes # <<>>)) => Len(reads) = 1
       /\ Len(reads) = 1 =>
             /\ pendingTests = <<>>
             /\ Len(gathered) = 1 /\ Len(tests) = gathered[1].args[1]
             /\ \A k \in 1..Len(log) :
                   log[k].ev \in {"gather", "test"} => k < FirstAt(log, "read")
             /\ reads[1].n = cur
             /\ reads[1].args = <<asserts.good, asserts.bad>>

C15_Step ==
    /\ (pages # <<>> /\ Len(pages') > Len(pages)) =>
          (Len(Entries(log, "read")) = 1 /\ pages[Len(pages)].suite = cur)
    /\ (pages # <<>> /\ exits' # exits) =>
          (Len(Entries(log, "read")) = 1 /\ pages[Len(pages)].suite = cur)

\* C15: the tally of a suite is never read twice and not before the suite's
\* tests are through; when it is read the queue is empty and every gathered
\* test has been executed, the values read are the tally's; the suite's
\* continuation is invoked with the read done, and the page of the next
\* suite is made, or the process exits, only from a state in which the
\* tally of the current suite has been read once.
C15_TallyReadOnce == []C15_State /\ [][C15_Step]_vars

C15_Witness ==
    /\ pc = "doneCb"
    /\ Len(Entries(log, "test")) = 2
    /\ Entries(log, "read") = <<Ev("read", cur, <<1, 1>>)>>

\* One list begins with the other.
IsPrefix(s, t) == Len(s) <= Len(t) /\ SubSeq(t, 1, Len(s)) = s

C16_Step ==
    /\ IsPrefix(exitCodes, exitCodes')
    /\ Len(exitCodes') <= Len(exitCodes) + 1
    /\ exitCodes' # exitCodes =>
          (pc = "doneCb" /\ exitCodes' = Append(exitCodes, doneArg))
    /\ (pc = "doneCb" /\ pc' # "doneCb") => Len(exitCodes') = Len(exitCodes) + 1

C16_State ==
    /\ (pages # <<>> /\ pc # "exited") => Len(exitCodes) = cur
    /\ pc = "doneCb" => doneArg = SuiteExitCode(asserts)
    /\ (pc = "exited" /\ pages # <<>>) => Len(exitCodes) = Len(registeredSuites)

\* C16: the list of exit codes only grows, by one code at its end and only
\* in a suite's continuation, which appends the code it was called with;
\* while suite n is pending the list holds the n codes of the suites before
\* it; and when the run is finalized it holds one code for every
\* registered suite.
C16_ExitCodesAppendOnly == []C16_State /\ [][C16_Step]_vars

\* The lifecycle steps in the log of the current suite, without the
\* printed lines around them.
Steps == SelectSeq(log, LAMBDA e : e.ev \notin {"br", "starting", "verbose"})

\* The entries of injecting every path of a list, in order, with success.
Injected(kind, paths) ==
    [j \in 1..Len(paths.list) |-> Ev(kind, cur, <<paths.list[j], 1>>)]

\* C17: when the continuation of a suite is invoked, the steps of that
\* suite have been, in this order and with none missing: the page made and
\* opened, every configured polyfill injected in order, the load complete,
\* every configured user script injected in order, the assertion library,
\* the tests gathered, each gathered test executed, the tally read, the
\* summary printed; and the continuation gets the suite's exit code.
C17_LifecycleOrder ==
    pc = "doneCb" =>
        \E status \in {0, 1}, k \in 0..MaxTests, oks \in [1..MaxTests -> {0, 1}] :
            /\ Steps = <<Ev("create", cur, <<Len(pages)>>),
                         Ev("open", cur, <<pages[Len(pages)].url>>)>>
                       \o Injected("polyfill", polyfillPaths)
                       \o <<Ev("loaded", cur, <<status>>)>>
                       \o Injected("userscript", userScriptPaths)
                       \o <<Ev("xunit", cur, <<>>), Ev("gather", cur, <<k>>)>>
                       \o [j \in 1..k |-> Ev("test", cur, <<j, oks[j]>>)]
                       \o <<Ev("read", cur, <<asserts.good, asserts.bad>>),
                            Ev("summary", cur,
                               SummaryLine(cur, Len(registeredSuites), asserts))>>
            /\ doneArg = SuiteExitCode(asserts)

LoadCompletes == Len(Entries(log', "loaded")) > Len(Entries(log, "loaded"))

\* C19: a suite whose load-complete callback has not fired has no code in
\* the list, no page after its own, and the process has not exited; and as
\* long as that callback does not fire, whatever else happens (the
\* on-initialized hook with or without a throw, registrations), the suite
\* stays pending: its continuation is not invoked, no page is made,
\* nothing is appended to the exit codes, the process does not exit, and
\* the log holds no load, test, tally, summary or continuation entry.
C19_NoTimeout ==
    /\ [](pc = "wait" =>
            /\ Len(exitCodes) = cur /\ Len(pages) = cur + 1 /\ exits = <<>>
            /\ \A k \in 1..Len(log) :
                  log[k].ev \notin {"loaded", "userscript", "xunit", "gather", "test",
                                    "read", "summary", "done", "allFinished"})
    /\ [][(pc = "wait" /\ ~LoadCompletes) =>
             (pc' = "wait" /\ UNCHANGED <<exitCodes, exits, cur, doneArg, asserts,
                                          pendingTests>>
                /\ Len(pages') = Len(pages))]_vars

C19_Witness ==
    /\ pc = "wait" /\ cur = 1 /\ pages[2].initialized
    /\ Len(registeredSuites) = 2 /\ exitCodes = <<FAIL_CODE>> /\ exits = <<>>

\* The steps of the current suite from its load-complete entry on.
StepsFromLoad ==
    LET at == FirstAt(Steps, "loaded")
    IN IF at = 0 THEN <<>> ELSE SubSeq(Steps, at, Len(Steps))

\* The load of the current suite was reported as failed.
LoadFailed == Entries(log, "loaded") = <<Ev("loaded", cur, <<0>>)>>

C20_State ==
    LoadFailed =>
        /\ pc \in {"gather", "run", "finish", "doneCb", "idle", "exited"}
        /\ pc = "idle" =>
              /\ uncaught[Len(uncaught)] \in
                    {"phantom-tester: _userScriptPaths is not defined",
                     "Can't inject userscript into the page..."}
              /\ ~userScriptPaths.defined \/ InjectionFailed("userscript")
        /\ pc # "idle" =>
              IsPrefix(<<Ev("loaded", cur, <<0>>)>>
                          \o Injected("userscript", userScriptPaths)
                          \o <<Ev("xunit", cur, <<>>)>>,
                       StepsFromLoad)
        /\ pc \in {"run", "finish", "doneCb", "exited"} =>
              Len(Entries(log, "gather")) = 1
        /\ pc \in {"finish", "doneCb", "exited"} =>
              /\ pendingTests = <<>>
              /\ Len(Entries(log, "test")) = Entries(log, "gather")[1].args[1]
        /\ pc \in {"doneCb", "exited"} =>
              /\ Entries(log, "read") = <<Ev("read", cur, <<asserts.good, asserts.bad>>)>>
              /\ doneArg = SuiteExitCode(asserts)
        /\ pc = "doneCb" => ENABLED suiteDoneCb
        /\ pc = "exited" => Len(Entries(log, "done")) = 1

C20_Step ==
    LoadCompletes =>
        \/ pc' = "gather" /\ uncaught' = uncaught
        \/ /\ pc' = "idle"
           /\ ~userScriptPaths.defined \/ InjectionFailed("userscript")'

\* C20: the status the driver reports to the load-complete callback decides
\* nothing.  The callback goes on to the user scripts whatever the status,
\* and gives up only for a missing or failed user script; after a load
\* reported as failed the suite has every configured user script and the
\* assertion library injected, gathers its tests, executes every one of
\* them, reads the tally, and its continuation is invoked with the suite's
\* exit code.
C20_StatusIgnored == []C20_State /\ [][C20_Step]_vars

C20_Witness ==
    /\ LoadFailed /\ pc = "doneCb"
    /\ Len(Entries(log, "userscript")) = 1
    /\ Len(Entries(log, "test")) = 2
    /\ doneArg = FAIL_CODE

====
